---- MODULE Spec2Model ----
(***************************************************************************)
(* Model of procyclingstats.Rider (rider_scraper.py): one Rider instance   *)
(* bound to a parsed rider page, and the extraction routines called on it. *)
(*                                                                         *)
(* Text is a sequence of one-character strings, so that the string         *)
(* operations of the routines (isnumeric, strip, split, re.search, the     *)
(* "in" substring test, int, float) are computed, not assumed.             *)
(* Python values are records tagged by t: none, int, float, str, raise.    *)
(*                                                                         *)
(* The second part models tests.FixturesUtils (fixtures_utils.py): the     *)
(* fixtures directory, the operations that write and read it, and the loop *)
(* of ScraperTestBaseClass.test_parser over the recovered scrapers.        *)
(***************************************************************************)
EXTENDS Integers, Sequences, FiniteSets, TLC

VARIABLES html, html0, last, fixtures, made, flast

vars == <<html, html0, last, fixtures, made, flast>>

\* the state of the Rider and the state of the fixture store
rider_vars == <<html, html0, last>>

fixture_vars == <<fixtures, made, flast>>

(***************************************************************************)
(* Python values                                                           *)
(***************************************************************************)
None == [t |-> "none"]

PyInt(n) == [t |-> "int", v |-> n]

PyFloat(w, f) == [t |-> "float", w |-> w, f |-> f]

PyStr(s) == [t |-> "str", s |-> s]

Raise(e) == [t |-> "raise", e |-> e]

Truthy(v) ==
    CASE v.t = "none" -> FALSE
      [] v.t = "str" -> v.s /= <<>>
      [] v.t = "int" -> v.v /= 0
      [] v.t = "float" -> ~(v.w = 0 /\ v.f = <<>>)
      [] OTHER -> TRUE

(***************************************************************************)
(* Characters.  HALF stands for U+00BD, a character for which              *)
(* str.isnumeric() is true although int() and float() reject it.           *)
(***************************************************************************)
DigitVal ==
    [c \in {"0", "1", "2", "3", "4", "5", "6", "7", "8", "9"} |->
        CASE c = "0" -> 0 [] c = "1" -> 1 [] c = "2" -> 2 [] c = "3" -> 3
          [] c = "4" -> 4 [] c = "5" -> 5 [] c = "6" -> 6 [] c = "7" -> 7
          [] c = "8" -> 8 [] c = "9" -> 9]

IsDecimal(c) == c \in DOMAIN DigitVal

HALF == "u00BD"

IsNumericChar(c) == IsDecimal(c) \/ c = HALF

IsUpper(c) == c \in {"A", "B", "C", "D", "F", "N", "P", "R", "S", "T", "W"}

(***************************************************************************)
(* str methods                                                             *)
(***************************************************************************)
isnumeric(x) == Len(x) > 0 /\ \A i \in 1..Len(x) : IsNumericChar(x[i])

AllDecimal(x) == \A i \in 1..Len(x) : IsDecimal(x[i])

RECURSIVE lstrip(_)
lstrip(x) == IF x /= <<>> /\ Head(x) = " " THEN lstrip(Tail(x)) ELSE x

RECURSIVE rstrip(_)
rstrip(x) ==
    IF x /= <<>> /\ x[Len(x)] = " " THEN rstrip(SubSeq(x, 1, Len(x) - 1)) ELSE x

strip(x) == rstrip(lstrip(x))

\* x.split(sep): the segments of x between occurrences of the character sep
RECURSIVE split(_, _)
split(x, sep) ==
    IF \E i \in 1..Len(x) : x[i] = sep
    THEN LET i == CHOOSE j \in 1..Len(x) :
                      x[j] = sep /\ \A k \in 1..(j - 1) : x[k] /= sep
         IN <<SubSeq(x, 1, i - 1)>> \o split(SubSeq(x, i + 1, Len(x)), sep)
    ELSE <<x>>

\* sub in x
Contains(x, sub) ==
    \E i \in 1..(Len(x) - Len(sub) + 1) : SubSeq(x, i, i + Len(sub) - 1) = sub

RECURSIVE DecimalValue(_)
DecimalValue(x) ==
    IF x = <<>> THEN 0
    ELSE 10 * DecimalValue(SubSeq(x, 1, Len(x) - 1)) + DigitVal[x[Len(x)]]

\* int(x)
int(x) ==
    LET s == strip(x)
    IN IF s /= <<>> /\ AllDecimal(s) THEN PyInt(DecimalValue(s))
       ELSE Raise("ValueError")

RECURSIVE DropTrailingZeros(_)
DropTrailingZeros(x) ==
    IF x /= <<>> /\ x[Len(x)] = "0"
    THEN DropTrailingZeros(SubSeq(x, 1, Len(x) - 1)) ELSE x

\* float(x): digits with at most one decimal point, surrounding blanks allowed
float(x) ==
    LET s == strip(x)
        parts == split(s, ".")
        w == parts[1]
        f == IF Len(parts) = 2 THEN parts[2] ELSE <<>>
    IN IF /\ Len(parts) <= 2
          /\ AllDecimal(w) /\ AllDecimal(f)
          /\ Len(w) + Len(f) > 0
       THEN PyFloat(DecimalValue(w), DropTrailingZeros(f))
       ELSE Raise("ValueError")

(***************************************************************************)
(* The nodes of the rider pages                                            *)
(***************************************************************************)
Team(season, name, url) ==
    [season |-> PyStr(season), team_name |-> PyStr(name), team_url |-> PyStr(url)]

Stage(name, url) == [stage_name |-> PyStr(name), stage_url |-> PyStr(url)]

Node ==
    [\* a team membership with a class code and an end date
     ItemWT |->
        [hasSeason |-> TRUE, named |-> Team(<<"2", "1">>, <<"A">>, <<"t", "a">>),
         cells |-> << <<"2", "1">>, <<"A", " ", "(", "W", "T", ")">>,
                      <<"u", "n", "t", "i", "l", " ", "3", "0", "/", "0", "6">>,
                      <<>> >>],
     \* a team membership with a class code and a start date
     ItemPRT |->
        [hasSeason |-> TRUE, named |-> Team(<<"2", "2">>, <<"B">>, <<"t", "b">>),
         cells |-> << <<"2", "2">>, <<"B", " ", "(", "P", "R", "T", ")">>,
                      <<"a", "s", " ", "f", "r", "o", "m", " ",
                        "0", "1", "/", "0", "8">>,
                      <<>> >>],
     \* an item with a season element whose annotation holds no class code
     ItemSuspended |->
        [hasSeason |-> TRUE, named |-> Team(<<"2", "3">>, <<"S">>, <<"t", "s">>),
         cells |-> << <<"2", "3">>, <<"S", " ", "(", "2", ")">>, <<>>, <<>> >>],
     \* an item without a season element, although its text holds a class code
     ItemNoSeason |->
        [hasSeason |-> FALSE,
         named |-> [team_name |-> PyStr(<<"C">>), team_url |-> PyStr(<<"t", "c">>)],
         cells |-> << <<"S">>, <<"C", " ", "(", "W", "T", ")">>, <<>>, <<>> >>],
     \* a stage with a date, a rank, a GC rank, a distance and points
     RowNormal |->
        [named |-> Stage(<<"A">>, <<"r", "a">>),
         cells |-> << <<"1", ".", "7">>, <<"8">>, <<"1", "2">>, <<"A">>,
                      <<"1", "2", ".", "5">>, <<"8">>, <<"8">> >>],
     \* a row without date, not finished, whose distance and points were
     \* superseded
     RowCrossed |->
        [named |-> Stage(<<"B">>, <<"r", "b">>),
         cells |-> << <<>>, <<"D", "N", "F">>, <<>>, <<"B">>,
                      <<"1", "2", " ", "8">>, <<"1", "2", " ", "8">>,
                      <<"1", "2", " ", "8">> >>],
     \* a row whose second cell is empty
     RowEmpty |->
        [named |-> Stage(<<"C">>, <<"r", "c">>),
         cells |-> << <<"2", ".", "7">>, <<>>, <<>>, <<"C">>, <<>>, <<>>, <<>> >>],
     \* a row of a single cell
     RowShort |-> [named |-> Stage(<<>>, <<>>), cells |-> << <<"D">> >>],
     \* a row whose date has no day.month separator and whose rank is U+00BD
     RowMalformed |->
        [named |-> Stage(<<"F">>, <<"r", "f">>),
         cells |-> << <<"1", "7">>, <<HALF>>, <<>>, <<"F">>, <<>>, <<>>, <<>> >>],
     \* a row of the points-per-season table
     Points21 |->
        [named |-> [season |-> PyStr(<<"2", "1">>), points |-> PyInt(8),
                    rank |-> PyInt(2)],
         cells |-> << <<"2", "1">>, <<"8">>, <<"2">> >>],
     \* the links of the rider content box
     LinkNation |-> [named |-> [x \in {} |-> None], cells |-> << <<"S", "I">> >>],
     LinkPlace |-> [named |-> [x \in {} |-> None], cells |-> << <<"K">> >>]]

ResultsHeader == <<"Date", "Result", "", "Race", "Distance", "PCS", "UCI">>

PointsHeader == <<"", "Points", "Rank">>

\* self.html.css_first(".rdrSeasonNav > li.cur > a"), and its text
YearNode(tree) ==
    [present |-> tree.year, text |-> IF tree.year THEN <<"2", "0", "2", "1">> ELSE <<>>]

ImageSrc == <<"i">>

(***************************************************************************)
(* utils.parse_table_fields_args (the Field Selector): the requested names *)
(* checked against the available ones; the result keeps the declared       *)
(* order of the available fields.                                          *)
(***************************************************************************)
Range(s) == {s[i] : i \in 1..Len(s)}

parse_table_fields_args(args, available) ==
    IF \E i \in 1..Len(args) : args[i] \notin Range(available)
    THEN [ok |-> FALSE, fields |-> <<>>]
    ELSE IF args = <<>>
         THEN [ok |-> TRUE, fields |-> available]
         ELSE [ok |-> TRUE,
               fields |-> SelectSeq(available, LAMBDA f : f \in Range(args))]

(***************************************************************************)
(* TableParser (the Table Extraction Engine).  A table-like node is        *)
(* [header |-> labels, rows |-> rows]; its rows are nodes, and the content *)
(* of node n is Node[n] = [named |-> the cells the engine reads by field   *)
(* name, cells |-> the texts of its child cells].  The content of a node   *)
(* never changes; what changes is which nodes a tree holds.                *)
(* A Row of the built table is an ordered mapping: a sequence of           *)
(* [k |-> field, v |-> value].                                             *)
(***************************************************************************)
ByIndex(i) == [by |-> "index", index |-> i, label |-> ""]

ByLabel(l) == [by |-> "label", index |-> 0, label |-> l]

TableParser(node) == [node |-> node, table |-> <<>>, exc |-> ""]

\* the engine's reading of one named field of one row
FieldValue(row, field) ==
    IF field \in DOMAIN Node[row].named THEN Node[row].named[field] ELSE None

\* TableParser.parse(fields): the primary pass
parse(tp, fields) ==
    [tp EXCEPT !.table =
        [i \in 1..Len(tp.node.rows) |->
            [j \in 1..Len(fields) |->
                [k |-> fields[j], v |-> FieldValue(tp.node.rows[i], fields[j])]]]]

\* the raw text of column col of a row; "" when the row has no such cell or
\* the header has no such label
CellText(node, row, col) ==
    LET n == Len(Node[row].cells)
        pos == IF col.by = "index"
               THEN IF col.index >= 0 THEN col.index + 1 ELSE n + col.index + 1
               ELSE IF \E h \in 1..Len(node.header) : node.header[h] = col.label
                    THEN CHOOSE h \in 1..Len(node.header) :
                             /\ node.header[h] = col.label
                             /\ \A g \in 1..(h - 1) : node.header[g] /= col.label
                    ELSE 0
    IN IF pos \in 1..n THEN Node[row].cells[pos] ELSE <<>>

\* TableParser.parse_extra_column(col, func): the column's text for every row
\* of the node, in document order; func is applied to the texts where the
\* routine makes the call
parse_extra_column(tp, col) ==
    [i \in 1..Len(tp.node.rows) |-> CellText(tp.node, tp.node.rows[i], col)]

HasKey(row, field) == \E j \in 1..Len(row) : row[j].k = field

SetKey(row, field, value) ==
    IF HasKey(row, field)
    THEN [j \in 1..Len(row) |->
             IF row[j].k = field THEN [k |-> field, v |-> value] ELSE row[j]]
    ELSE Append(row, [k |-> field, v |-> value])

\* TableParser.extend_table(field, values): values[i] attached to row i; a
\* table that no primary pass has built yet gets one row per value; values
\* of another length than the table are refused
extend_table(tp, field, values) ==
    LET base == IF tp.table = <<>> THEN [i \in 1..Len(values) |-> <<>>]
                ELSE tp.table
    IN IF Len(base) /= Len(values)
       THEN [tp EXCEPT !.exc = "ValueError"]
       ELSE [tp EXCEPT !.table =
                [i \in 1..Len(base) |-> SetKey(base[i], field, values[i])]]

(***************************************************************************)
(* utils.get_day_month: the first dd/mm of a text, as mm-dd                *)
(***************************************************************************)
IsDayMonthAt(x, i) ==
    /\ i + 4 <= Len(x)
    /\ IsDecimal(x[i]) /\ IsDecimal(x[i + 1])
    /\ x[i + 2] = "/"
    /\ IsDecimal(x[i + 3]) /\ IsDecimal(x[i + 4])

get_day_month(x) ==
    IF \E i \in 1..Len(x) : IsDayMonthAt(x, i)
    THEN LET i == CHOOSE j \in 1..Len(x) :
                      IsDayMonthAt(x, j) /\ \A k \in 1..(j - 1) : ~IsDayMonthAt(x, k)
         IN PyStr(<<x[i + 3], x[i + 4], "-", x[i], x[i + 1]>>)
    ELSE Raise("ValueError")

(***************************************************************************)
(* The result of one routine call: how it ended, the table or value it     *)
(* returned, the tree it leaves in self.html, the number of queries it     *)
(* made on self.html and the number of nodes it removed from that tree.    *)
(***************************************************************************)
Result(outcome, table, value, tree, queries, removed) ==
    [outcome |-> outcome, table |-> table, value |-> value, html |-> tree,
     queries |-> queries, removed |-> removed]

InvalidField(tree) == Result("InvalidFieldError", <<>>, None, tree, 0, 0)

Get(row, field) == (CHOOSE j \in 1..Len(row) : row[j].k = field)

Value(row, field) == row[Get(row, field)].v

\* row.pop(field)
Pop(row, field) == SelectSeq(row, LAMBDA e : e.k /= field)

(***************************************************************************)
(* Rider.teams_history                                                     *)
(***************************************************************************)
teams_available_fields ==
    <<"season", "since", "until", "team_name", "team_url", "class">>

\* valid_items without the test for a season element
valid_items_unfiltered(items) == items

\* [li for li in seasons_html_table.css("li.main") if li.css_first("div.season")]
valid_items(items) == SelectSeq(items, LAMBDA li : Node[li].hasSeason)

\* the filtered list, parsed anew from the markup of the valid items
filtered_ul_node(items) == [header |-> <<>>, rows |-> valid_items(items)]

teams_casual_fields(fields) ==
    SelectSeq(fields, LAMBDA f : f \in {"season", "team_name", "team_url"})

\* re.search(r"\(([^0-9][A-Z]+)\)", x) matches at i and ends at j
ClassMatch(x, i, j) ==
    /\ i + 3 <= j /\ j <= Len(x)
    /\ x[i] = "(" /\ x[j] = ")"
    /\ ~IsDecimal(x[i + 1])
    /\ \A k \in (i + 2)..(j - 1) : IsUpper(x[k])

class_of(x) ==
    IF x /= <<>> /\ \E i, j \in 1..Len(x) : ClassMatch(x, i, j)
    THEN LET i == CHOOSE a \in 1..Len(x) :
                      /\ \E j \in 1..Len(x) : ClassMatch(x, a, j)
                      /\ \A b \in 1..(a - 1) :
                             ~\E j \in 1..Len(x) : ClassMatch(x, b, j)
             j == CHOOSE b \in 1..Len(x) : ClassMatch(x, i, b)
         IN PyStr(SubSeq(x, i + 1, j - 1))
    ELSE None

AS_FROM == <<"a", "s", " ", "f", "r", "o", "m">>

UNTIL == <<"u", "n", "t", "i", "l">>

since_of(x) ==
    IF Contains(x, AS_FROM) THEN get_day_month(x)
    ELSE PyStr(<<"0", "1", "-", "0", "1">>)

until_of(x) ==
    IF Contains(x, UNTIL) THEN get_day_month(x)
    ELSE PyStr(<<"1", "2", "-", "3", "1">>)

\* the first exception among the values of a column, "" when there is none
FirstRaise(values) ==
    IF \E i \in 1..Len(values) : values[i].t = "raise"
    THEN values[CHOOSE i \in 1..Len(values) :
                    /\ values[i].t = "raise"
                    /\ \A j \in 1..(i - 1) : values[j].t /= "raise"].e
    ELSE ""

\* one "if cond: values = ...; table_parser.extend_table(field, values)" step
Attach(tp, cond, field, values) ==
    IF tp.exc /= "" \/ ~cond THEN tp
    ELSE IF FirstRaise(values) /= "" THEN [tp EXCEPT !.exc = FirstRaise(values)]
         ELSE extend_table(tp, field, values)

\* table = [row for row in table_parser.table if row['class']]
rows_with_class(table) == SelectSeq(table, LAMBDA row : Truthy(Value(row, "class")))

\* teams_strip_class that leaves the class field in every row
teams_keep_class(table, fields) == table

\* the class field removed when it was not requested
teams_strip_class(table, fields) ==
    IF "class" \notin Range(fields)
    THEN [i \in 1..Len(table) |-> Pop(table[i], "class")]
    ELSE table

teams_table(items, fields) ==
    LET tp0 == TableParser(filtered_ul_node(items))
        casual == teams_casual_fields(fields)
        tp1 == IF casual /= <<>> THEN parse(tp0, casual) ELSE tp0
        annot == parse_extra_column(tp0, ByIndex(1))
        period == parse_extra_column(tp0, ByIndex(-2))
        tp2 == Attach(tp1, TRUE, "class",
                      [i \in DOMAIN annot |-> class_of(annot[i])])
        tp3 == Attach(tp2, "since" \in Range(fields), "since",
                      [i \in DOMAIN period |-> since_of(period[i])])
        tp4 == Attach(tp3, "until" \in Range(fields), "until",
                      [i \in DOMAIN period |-> until_of(period[i])])
    IN IF tp4.exc /= "" THEN [exc |-> tp4.exc, table |-> <<>>]
       ELSE [exc |-> "",
             table |-> teams_strip_class(rows_with_class(tp4.table), fields)]

teams_history(tree, args) ==
    LET sel == parse_table_fields_args(args, teams_available_fields)
        t == teams_table(tree.teams, sel.fields)
    IN IF ~sel.ok THEN InvalidField(tree)
       ELSE IF t.exc /= "" THEN Result(t.exc, <<>>, None, tree, 1, 0)
            ELSE Result("ok", t.table, None, tree, 1, 0)

(***************************************************************************)
(* Rider.points_per_season_history                                         *)
(***************************************************************************)
points_available_fields == <<"season", "points", "rank">>

points_per_season_history(tree, args) ==
    LET sel == parse_table_fields_args(args, points_available_fields)
        tp == parse(TableParser([header |-> PointsHeader, rows |-> tree.points]),
                    sel.fields)
    IN IF ~sel.ok THEN InvalidField(tree)
       ELSE Result("ok", tp.table, None, tree, 1, 0)

(***************************************************************************)
(* Rider.season_results                                                    *)
(***************************************************************************)
results_available_fields ==
    <<"result", "gc_position", "stage_url", "stage_name", "distance", "date",
      "pcs_points", "uci_points">>

\* results_casual_fields with the two names listed the other way round
results_casual_fields_swapped(fields) ==
    SelectSeq(<<"stage_name", "stage_url">>, LAMBDA f : f \in Range(fields))

results_casual_fields(fields) ==
    SelectSeq(<<"stage_url", "stage_name">>, LAMBDA f : f \in Range(fields))

\* remove_empty_rows over a live node list: the row that follows a removed
\* row is never looked at
RECURSIVE remove_skipping_next(_)
remove_skipping_next(rows) ==
    IF rows = <<>> THEN [rows |-> <<>>, exc |-> "", removed |-> 0]
    ELSE IF Len(Node[Head(rows)].cells) < 2
         THEN [rows |-> rows, exc |-> "IndexError", removed |-> 0]
         ELSE IF Node[Head(rows)].cells[2] = <<>>
              THEN IF Tail(rows) = <<>>
                   THEN [rows |-> <<>>, exc |-> "", removed |-> 1]
                   ELSE LET rest == remove_skipping_next(Tail(Tail(rows)))
                        IN [rest EXCEPT !.removed = @ + 1,
                                        !.rows = <<Head(Tail(rows))>> \o @]
              ELSE LET rest == remove_skipping_next(Tail(rows))
                   IN [rest EXCEPT !.rows = <<Head(rows)>> \o @]

\* for tr in results_html.css("tbody > tr"):
\*     if not tr.css("td")[1].text(): tr.remove()
\* run over the rows in document order: the rows left in the tree, the
\* exception that ended the loop ("" when none) and the number of rows removed
RECURSIVE remove_empty_rows(_)
remove_empty_rows(rows) ==
    IF rows = <<>> THEN [rows |-> <<>>, exc |-> "", removed |-> 0]
    ELSE IF Len(Node[Head(rows)].cells) < 2
         THEN [rows |-> rows, exc |-> "IndexError", removed |-> 0]
         ELSE LET rest == remove_empty_rows(Tail(rows))
              IN IF Node[Head(rows)].cells[2] = <<>>
                 THEN [rest EXCEPT !.removed = @ + 1]
                 ELSE [rest EXCEPT !.rows = <<Head(rows)>> \o @]

\* lambda x: x.strip().split(' ')[-1]
clean_crossed_out_val(x) ==
    LET parts == split(strip(x), " ") IN parts[Len(parts)]

\* dates[i] = f"{year}-{splitted_date[1]}-{splitted_date[0]}" if date else None
compose_date(year, date) ==
    IF date = <<>> THEN None
    ELSE LET splitted_date == split(date, ".")
         IN IF Len(splitted_date) < 2 THEN Raise("IndexError")
            ELSE PyStr(year \o <<"-">> \o splitted_date[2] \o <<"-">>
                       \o splitted_date[1])

\* lambda x: int(x) if x.isnumeric() else None
position_of(x) == IF isnumeric(x) THEN int(x) ELSE None

\* lambda x: float(clean_crossed_out_val(x)) if x.split(".")[0].isnumeric() else None
distance_of(x) ==
    IF isnumeric(split(x, ".")[1]) THEN float(clean_crossed_out_val(x)) ELSE None

\* points_of without its default
points_of_null(x) == IF isnumeric(x) THEN float(clean_crossed_out_val(x)) ELSE None

\* lambda x: float(clean_crossed_out_val(x)) if x.isnumeric() else 0
points_of(x) == IF isnumeric(x) THEN float(clean_crossed_out_val(x)) ELSE PyInt(0)

\* the "date" step: skipped as a whole (AttributeError caught) when the page
\* has no current-season link
attach_dates(tp, fields, year) ==
    LET dates == parse_extra_column(tp, ByLabel("Date"))
    IN IF "date" \in Range(fields) /\ year.present
       THEN Attach(tp, TRUE, "date",
                   [i \in DOMAIN dates |-> compose_date(year.text, dates[i])])
       ELSE tp

results_table(node, fields, year) ==
    LET casual == results_casual_fields(fields)
        tp0 == TableParser(node)
        tp1 == IF casual /= <<>> THEN parse(tp0, casual) ELSE tp0
        tp2 == attach_dates(tp1, fields, year)
        results == parse_extra_column(tp0, ByLabel("Result"))
        gc_positions == parse_extra_column(tp0, ByIndex(2))
        distances == parse_extra_column(tp0, ByLabel("Distance"))
        pcs_points == parse_extra_column(tp0, ByLabel("PCS"))
        uci_points == parse_extra_column(tp0, ByLabel("UCI"))
        tp3 == Attach(tp2, "result" \in Range(fields), "result",
                      [i \in DOMAIN results |-> position_of(results[i])])
        tp4 == Attach(tp3, "gc_position" \in Range(fields), "gc_position",
                      [i \in DOMAIN gc_positions |-> position_of(gc_positions[i])])
        tp5 == Attach(tp4, "distance" \in Range(fields), "distance",
                      [i \in DOMAIN distances |-> distance_of(distances[i])])
        tp6 == Attach(tp5, "pcs_points" \in Range(fields), "pcs_points",
                      [i \in DOMAIN pcs_points |-> points_of(pcs_points[i])])
        tp7 == Attach(tp6, "uci_points" \in Range(fields), "uci_points",
                      [i \in DOMAIN uci_points |-> points_of(uci_points[i])])
    IN tp7

\* season_results with the field check made after the rows were filtered
season_results_late_check(tree, args) ==
    LET sel == parse_table_fields_args(args, results_available_fields)
        rem == remove_empty_rows(tree.results)
        tree1 == [tree EXCEPT !.results = rem.rows]
        tp == results_table([header |-> ResultsHeader, rows |-> tree1.results],
                            sel.fields, YearNode(tree1))
        queries == IF "date" \in Range(sel.fields) THEN 2 ELSE 1
    IN IF rem.exc /= ""
       THEN Result(rem.exc, <<>>, None, tree1, 1, rem.removed)
       ELSE IF ~sel.ok
            THEN Result("InvalidFieldError", <<>>, None, tree1, 1, rem.removed)
            ELSE IF tp.exc /= ""
                 THEN Result(tp.exc, <<>>, None, tree1, queries, rem.removed)
                 ELSE Result("ok", tp.table, None, tree1, queries, rem.removed)

season_results(tree, args) ==
    LET sel == parse_table_fields_args(args, results_available_fields)
        rem == remove_empty_rows(tree.results)
        tree1 == [tree EXCEPT !.results = rem.rows]
        tp == results_table([header |-> ResultsHeader, rows |-> tree1.results],
                            sel.fields, YearNode(tree1))
        queries == IF "date" \in Range(sel.fields) THEN 2 ELSE 1
    IN IF ~sel.ok THEN InvalidField(tree)
       ELSE IF rem.exc /= ""
            THEN Result(rem.exc, <<>>, None, tree1, 1, rem.removed)
            ELSE IF tp.exc /= ""
                 THEN Result(tp.exc, <<>>, None, tree1, queries, rem.removed)
                 ELSE Result("ok", tp.table, None, tree1, queries, rem.removed)

(***************************************************************************)
(* Scalar accessors                                                        *)
(***************************************************************************)
image_url(tree) ==
    Result("ok", <<>>, IF tree.img THEN PyStr(ImageSrc) ELSE None, tree, 1, 0)

place_of_birth(tree) ==
    Result("ok", <<>>,
           IF Len(tree.links) <= 1 THEN None ELSE PyStr(Node[tree.links[2]].cells[1]),
           tree, 1, 0)

(***************************************************************************)
(* Rider pages.  A page holds the items of the team-history list           *)
(* (ul.rdr-teams2), the rows of the points-per-season table, the body rows *)
(* of the season results table (table.rdrResults), whether the season      *)
(* navigation has a current-season link, whether there is a rider image,   *)
(* and the links of the rider content box.                                 *)
(***************************************************************************)
MaxItems == 2

MaxRows == 2

SeqsUpTo(S, n) == UNION {[1..m -> S] : m \in 0..n}

ItemKinds == {"ItemWT", "ItemPRT", "ItemSuspended", "ItemNoSeason"}

RowKinds == {"RowNormal", "RowCrossed", "RowEmpty", "RowShort", "RowMalformed"}

Page(items, rows, year, img, links) ==
    [teams |-> items, results |-> rows, year |-> year,
     points |-> <<"Points21">>, img |-> img, links |-> links]

Links == <<"LinkNation", "LinkPlace">>

\* the pages a Rider is constructed from: every team-history list, every
\* results table with and without the current-season link, and the profile
\* variants
Pages ==
    {Page(items, <<"RowNormal">>, TRUE, TRUE, Links) :
        items \in SeqsUpTo(ItemKinds, MaxItems)}
    \cup {Page(<<"ItemWT", "ItemSuspended">>, rows, year, TRUE, Links) :
            rows \in SeqsUpTo(RowKinds, MaxRows), year \in BOOLEAN}
    \cup {Page(<<"ItemWT">>, <<"RowNormal">>, TRUE, img, links) :
            img \in BOOLEAN, links \in {Links, SubSeq(Links, 1, 1)}}

(***************************************************************************)
(* Scraper objects.  A scraper object holds its relative URL and its html: *)
(* a tree, or None when no document is bound.  The text of a document is   *)
(* the record of the tree it parses to.                                    *)
(***************************************************************************)
\* tree.html, the text of a tree, and HTMLParser(text), the tree of a text
html_text(tree) == [html |-> tree]

HTMLParser(text) == text.html

\* Scraper(url, html, update_html=False): html is a text or None
Scraper(url, text) ==
    [url |-> url, html |-> IF text = None THEN None ELSE HTMLParser(text)]

relative_url(obj) == obj.url

\* the entry of a routine's result in the mapping parse returns
Entry(name, r) ==
    [k |-> name, v |-> IF name \in {"place_of_birth", "image_url"}
                       THEN r.value ELSE r.table]

\* Scraper.parse: every extraction routine of the Rider in turn, each with
\* no arguments; the first routine that raises ends the call with its
\* exception.  season_results is the last and the only one that changes the
\* tree, so every routine starts from the tree of the object.
RiderRoutines ==
    <<"place_of_birth", "image_url", "teams_history",
      "points_per_season_history", "season_results">>

\* rs: what the routines returned, in their order
collect(rs) ==
    LET raised == {i \in 1..Len(rs) : rs[i].outcome /= "ok"}
        first == CHOOSE i \in raised : \A j \in raised : i <= j
    IN IF raised /= {}
       THEN [outcome |-> rs[first].outcome, data |-> <<>>, html |-> rs[first].html]
       ELSE [outcome |-> "ok",
             data |-> [i \in 1..Len(rs) |-> Entry(RiderRoutines[i], rs[i])],
             html |-> rs[Len(rs)].html]

scraper_parse(obj) ==
    IF obj.html = None
    THEN [outcome |-> "UnavailableDocumentError", data |-> <<>>, html |-> None]
    ELSE collect(<<place_of_birth(obj.html), image_url(obj.html),
                   teams_history(obj.html, <<>>),
                   points_per_season_history(obj.html, <<>>),
                   season_results(obj.html, <<>>)>>)

\* get_corresponding_scraping_class: the class is chosen by the first segment
\* of the relative URL
get_corresponding_scraping_class(url) ==
    LET first == split(url, "/")[1]
    IN CASE first = <<"r">> -> "Rider"
         [] first = <<"t">> -> "Team"
         [] OTHER -> "ValueError"

(***************************************************************************)
(* FixturesUtils: file names                                               *)
(***************************************************************************)
\* x.replace(old, new) for single characters
replace(x, old, new) == [i \in 1..Len(x) |-> IF x[i] = old THEN new ELSE x[i]]

\* sep.join(parts)
RECURSIVE join(_, _)
join(sep, parts) ==
    IF parts = <<>> THEN <<>>
    ELSE IF Len(parts) = 1 THEN parts[1]
    ELSE parts[1] \o <<sep>> \o join(sep, Tail(parts))

forbidden == <<"<", ">", ":", "\"", "/", "\\", "|", "?", "*", "&", "=">>

\* the loop over the forbidden characters, from the k-th on; each pass
\* works on the value the pass before assigned to filename
RECURSIVE replace_each(_, _)
replace_each(filename, k) ==
    IF k > Len(forbidden) THEN filename
    ELSE CHOOSE result \in {replace_each(assigned, k + 1) :
                               assigned \in {replace(filename, forbidden[k], "_")}} :
             TRUE

url_to_filename(url) == replace_each(url, 1)

\* x with its last "."-separated part cut
cut_file_type(x) ==
    LET parts == split(x, ".")
    IN join(".", SubSeq(parts, 1, Len(parts) - 1))

filename_to_url(filename) ==
    replace(IF Contains(filename, <<".">>) THEN cut_file_type(filename)
            ELSE filename,
            "_", "/")

_get_filename_for_parsing(obj) ==
    IF obj.html = None
    THEN [exc |-> "ExpectedParsingError", filename |-> <<>>]
    ELSE [exc |-> "", filename |-> url_to_filename(relative_url(obj))]

(***************************************************************************)
(* FixturesUtils: the fixtures directory, a function from the names of its *)
(* files to their contents                                                 *)
(***************************************************************************)
TXT == <<"t", "x", "t">>

JSON == <<"j", "s", "o", "n">>

\* f"{filename}.{file_type}"
path(filename, file_type) == filename \o <<".">> \o file_type

\* open(path, "w") followed by write(content)
write(dir, name, content) ==
    [n \in DOMAIN dir \cup {name} |-> IF n = name THEN content ELSE dir[n]]

\* json.dumps and json.load
json_dumps(data) == [json |-> data]

json_load(text) == text.json

\* the outcome of a fixture operation: the exception or "ok", the directory
\* it leaves, the files it opened for writing, whether parse was called, the
\* value it returns
FResult(outcome, dir, opened, parsed, value) ==
    [outcome |-> outcome, dir |-> dir, opened |-> opened, parsed |-> parsed,
     value |-> value]

\* data: what parse returned; the file is opened once the data is dumped
dump_data(dir, name, data) ==
    IF data.outcome /= "ok" THEN FResult(data.outcome, dir, <<>>, TRUE, None)
    ELSE FResult("ok", write(dir, name, json_dumps(data.data)), <<name>>,
                 TRUE, None)

make_data_fixture(dir, obj) ==
    LET f == _get_filename_for_parsing(obj)
    IN IF f.exc /= "" THEN FResult(f.exc, dir, <<>>, FALSE, None)
       ELSE dump_data(dir, path(f.filename, JSON), scraper_parse(obj))

make_html_fixture(dir, obj) ==
    LET f == _get_filename_for_parsing(obj)
        name == path(f.filename, TXT)
    IN IF f.exc /= "" THEN FResult(f.exc, dir, <<>>, FALSE, None)
       ELSE FResult("ok", write(dir, name, html_text(obj.html)), <<name>>,
                    FALSE, None)

\* None when the file is not found
get_data_fixture(dir, url) ==
    LET name == path(url_to_filename(url), JSON)
    IN IF name \in DOMAIN dir THEN json_load(dir[name]) ELSE None

get_html_fixture(dir, url) ==
    LET name == path(url_to_filename(url), TXT)
    IN IF name \in DOMAIN dir THEN dir[name] ELSE None

\* glob: the names of the directory that end with "." and the file type
EndsWith(x, suffix) ==
    Len(x) >= Len(suffix) /\ SubSeq(x, Len(x) - Len(suffix) + 1, Len(x)) = suffix

glob(dir, file_type) == {n \in DOMAIN dir : EndsWith(n, <<".">> \o file_type)}

\* the orders in which glob may list the names
Listings(names) ==
    {l \in [1..Cardinality(names) -> names] : Range(l) = names}

\* html_files: the listing of glob for the file type
get_urls_from_fixtures_dir(html_files) ==
    [i \in 1..Len(html_files) |-> replace(cut_file_type(html_files[i]), "_", "/")]

\* html_files and json_files: the listings of glob for "txt" and "json"
get_scraper_objects_from_fixtures(dir, scraper_class, html_files, json_files) ==
    LET html_files_urls == get_urls_from_fixtures_dir(html_files)
        json_files_urls == get_urls_from_fixtures_dir(json_files)
        urls == SelectSeq(html_files_urls, LAMBDA url : url \in Range(json_files_urls))
        mine == SelectSeq(urls, LAMBDA url :
                              get_corresponding_scraping_class(url) = scraper_class)
    IN [i \in 1..Len(mine) |-> Scraper(mine[i], get_html_fixture(dir, mine[i]))]

\* the loop of test_parser: each recovered object is parsed and its data
\* fixture is read; parsed is what parse returned for the first object
RECURSIVE test_parser_loop(_, _, _)
RECURSIVE test_parser_step(_, _, _, _)
test_parser_step(dir, objects_to_test, done, parsed) ==
    LET obj == Head(objects_to_test)
    IN IF parsed.outcome /= "ok" THEN [outcome |-> parsed.outcome, runs |-> done]
       ELSE test_parser_loop(dir, Tail(objects_to_test),
                Append(done, [url |-> relative_url(obj), html |-> obj.html,
                              parsed |-> parsed.data,
                              correct |-> get_data_fixture(dir, relative_url(obj))]))

test_parser_loop(dir, objects_to_test, done) ==
    IF objects_to_test = <<>> THEN [outcome |-> "ok", runs |-> done]
    ELSE test_parser_step(dir, objects_to_test, done,
                          scraper_parse(Head(objects_to_test)))

(***************************************************************************)
(* The fixture store: the relative URLs and the documents of the scraper   *)
(* objects that fixtures are made from.  Two of the URLs differ only in a  *)
(* character that url_to_filename replaces.                                *)
(***************************************************************************)
FixtureUrls == {<<"r", "/", "a">>, <<"r", "?", "a">>, <<"r", "/", "b">>}

\* a page that parses, parse removing its row with the empty cell, and a
\* page whose results table has a row of a single cell
DocA == Page(<<"ItemWT", "ItemSuspended">>, <<"RowEmpty", "RowNormal">>,
             TRUE, TRUE, Links)

DocShort == Page(<<"ItemWT", "ItemSuspended">>, <<"RowShort">>, TRUE, TRUE, Links)

FixtureDocs == {DocA, DocShort}

ScraperObjects ==
    {Scraper(url, text) :
        url \in FixtureUrls,
        text \in {None} \cup {html_text(doc) : doc \in FixtureDocs}}

ScraperClasses == {"Rider", "Team"}

\* the empty fixtures directory
EmptyDir == [n \in {} |-> None]

\* made[url]: what make_html_fixture and make_data_fixture last saved for a
\* scraper object with that URL
NoneMade == [url \in FixtureUrls |-> [txt |-> None, json |-> None]]

FOp(op, url, bound, dir, r) ==
    [op |-> op, url |-> url, bound |-> bound, before |-> dir,
     outcome |-> r.outcome, opened |-> r.opened, parsed |-> r.parsed,
     value |-> r.value]

NoOp ==
    [op |-> "", url |-> <<>>, bound |-> FALSE, before |-> EmptyDir,
     outcome |-> "", opened |-> <<>>, parsed |-> FALSE, value |-> None]

(***************************************************************************)
(* The state machine: html is the tree held by the Rider, html0 the tree   *)
(* it was constructed with, last the latest call and what it returned.     *)
(***************************************************************************)
\* the argument lists of a call: no name (every field), one name, or two
\* different names in either order; "nonexistent" is no field of any routine
ArgLists(available) ==
    LET names == Range(available) \cup {"nonexistent"}
    IN {<<>>} \cup {<<a>> : a \in names}
       \cup {p \in {<<a, b>> : a \in names, b \in names} : p[1] /= p[2]}

Call(routine, args, r) ==
    [routine |-> routine, args |-> args, outcome |-> r.outcome,
     table |-> r.table, value |-> r.value, queries |-> r.queries,
     removed |-> r.removed]

NoCall ==
    [routine |-> "", args |-> <<>>, outcome |-> "", table |-> <<>>,
     value |-> None, queries |-> 0, removed |-> 0]

Init ==
    /\ html0 \in Pages
    /\ html = html0
    /\ last = NoCall
    /\ fixtures = EmptyDir
    /\ made = NoneMade
    /\ flast = NoOp

\* the routines are synchronous: a call is made once the caller has taken the
\* result of the one before
Do(routine, args, r) ==
    /\ last = NoCall
    /\ html' = r.html
    /\ last' = Call(routine, args, r)
    /\ UNCHANGED html0
    /\ UNCHANGED fixture_vars

TeamsHistory ==
    \E args \in ArgLists(teams_available_fields) :
        Do("teams_history", args, teams_history(html, args))

PointsPerSeasonHistory ==
    \E args \in ArgLists(points_available_fields) :
        Do("points_per_season_history", args, points_per_season_history(html, args))

SeasonResults ==
    \E args \in ArgLists(results_available_fields) :
        Do("season_results", args, season_results(html, args))

ImageUrl == Do("image_url", <<>>, image_url(html))

PlaceOfBirth == Do("place_of_birth", <<>>, place_of_birth(html))

\* the caller takes the returned value
Return ==
    /\ last /= NoCall
    /\ last' = NoCall
    /\ UNCHANGED <<html, html0>>
    /\ UNCHANGED fixture_vars

Next ==
    \/ Return
    \/ TeamsHistory
    \/ PointsPerSeasonHistory
    \/ SeasonResults
    \/ ImageUrl
    \/ PlaceOfBirth

Spec == Init /\ [][Next]_vars

(***************************************************************************)
(* The fixture store as a state machine: fixtures is the fixtures          *)
(* directory, flast the latest operation of FixturesUtils or run of        *)
(* test_parser and what it returned.                                       *)
(***************************************************************************)
InitFixtures ==
    /\ html0 = DocA
    /\ html = html0
    /\ last = NoCall
    /\ fixtures = EmptyDir
    /\ made = NoneMade
    /\ flast = NoOp

\* an operation that writes: the directory it leaves, and the record of what
\* was saved for the URL of the scraper object
Make(op, kind, obj, r) ==
    /\ flast.op = ""
    /\ fixtures' = r.dir
    /\ flast' = FOp(op, relative_url(obj), obj.html /= None, fixtures, r)
    /\ made' = IF r.outcome = "ok"
               THEN [made EXCEPT ![relative_url(obj)][kind] = r.dir[r.opened[1]]]
               ELSE made
    /\ UNCHANGED rider_vars

\* an operation that reads
Read(op, url, value) ==
    /\ flast.op = ""
    /\ flast' = FOp(op, url, TRUE, fixtures,
                    FResult("ok", fixtures, <<>>, FALSE, value))
    /\ UNCHANGED <<fixtures, made>>
    /\ UNCHANGED rider_vars

MakeDataFixture ==
    \E obj \in ScraperObjects :
        \E r \in {make_data_fixture(fixtures, obj)} :
            Make("make_data_fixture", "json", obj, r)

MakeHtmlFixture ==
    \E obj \in ScraperObjects :
        \E r \in {make_html_fixture(fixtures, obj)} :
            Make("make_html_fixture", "txt", obj, r)

GetDataFixture ==
    \E url \in FixtureUrls :
        Read("get_data_fixture", url, get_data_fixture(fixtures, url))

GetHtmlFixture ==
    \E url \in FixtureUrls :
        Read("get_html_fixture", url, get_html_fixture(fixtures, url))

GetUrlsFromFixturesDir ==
    \E file_type \in {TXT, JSON} :
        \E files \in Listings(glob(fixtures, file_type)) :
            Read("get_urls_from_fixtures_dir", file_type,
                 get_urls_from_fixtures_dir(files))

GetScraperObjectsFromFixtures ==
    \E scraper_class \in ScraperClasses :
        \E html_files \in Listings(glob(fixtures, TXT)) :
            \E json_files \in Listings(glob(fixtures, JSON)) :
                Read("get_scraper_objects_from_fixtures", <<>>,
                     get_scraper_objects_from_fixtures(
                         fixtures, scraper_class, html_files, json_files))

\* test_parser of the test class of Rider, up to the end of its loop
TestParser ==
    \E html_files \in Listings(glob(fixtures, TXT)) :
        \E json_files \in Listings(glob(fixtures, JSON)) :
            \E objects_to_test \in {get_scraper_objects_from_fixtures(
                                       fixtures, "Rider", html_files, json_files)} :
                \E r \in {test_parser_loop(fixtures, objects_to_test, <<>>)} :
                    /\ flast.op = ""
                    /\ flast' = FOp("test_parser", <<>>, TRUE, fixtures,
                                    FResult(r.outcome, fixtures, <<>>, TRUE, r.runs))
                    /\ UNCHANGED <<fixtures, made>>
                    /\ UNCHANGED rider_vars

\* the caller takes the returned value
FixtureReturn ==
    /\ flast.op /= ""
    /\ flast' = NoOp
    /\ UNCHANGED <<fixtures, made>>
    /\ UNCHANGED rider_vars

NextFixtures ==
    \/ FixtureReturn
    \/ MakeDataFixture
    \/ MakeHtmlFixture
    \/ GetDataFixture
    \/ GetHtmlFixture
    \/ GetUrlsFromFixturesDir
    \/ GetScraperObjectsFromFixtures
    \/ TestParser

SpecFixtures == InitFixtures /\ [][NextFixtures]_vars

(***************************************************************************)
(* Properties                                                              *)
(***************************************************************************)
Tabular == {"teams_history", "points_per_season_history", "season_results"}

Available(routine) ==
    CASE routine = "teams_history" -> teams_available_fields
      [] routine = "points_per_season_history" -> points_available_fields
      [] routine = "season_results" -> results_available_fields
      [] OTHER -> <<>>

ValidArgs(routine, args) == Range(args) \subseteq Range(Available(routine))

\* the field set F of a call
Requested(routine, args) ==
    IF args = <<>> THEN Range(Available(routine)) ELSE Range(args)

Apply(routine, tree, args) ==
    CASE routine = "teams_history" -> teams_history(tree, args)
      [] routine = "points_per_season_history" -> points_per_season_history(tree, args)
      [] routine = "season_results" -> season_results(tree, args)
      [] routine = "image_url" -> image_url(tree)
      [] routine = "place_of_birth" -> place_of_birth(tree)

Keys(row) == [j \in 1..Len(row) |-> row[j].k]

KeySet(row) == {row[j].k : j \in 1..Len(row)}

Reverse(s) == [i \in 1..Len(s) |-> s[Len(s) + 1 - i]]

Returned(routine) == last.routine = routine /\ last.outcome = "ok"

\* C1: after any sequence of routine calls the tree held in self.html holds
\* exactly the nodes it held at construction.
C1_TreeUnchanged == html = html0

\* C2: a tabular routine called with a name that is not one of its available
\* fields raises the invalid-field error without having queried self.html,
\* without having removed a row, and returns no table.
C2_InvalidFieldFirst ==
    (last.routine \in Tabular /\ ~ValidArgs(last.routine, last.args))
    => /\ last.outcome = "InvalidFieldError"
       /\ last.queries = 0
       /\ last.removed = 0
       /\ last.table = <<>>

\* season_results was called with an invalid name on a page whose results
\* table holds a row it would have removed
C2_Witness ==
    /\ last.routine = "season_results"
    /\ last.outcome = "InvalidFieldError"
    /\ \E i \in 1..Len(html.results) :
           /\ Len(Node[html.results[i]].cells) >= 2
           /\ Node[html.results[i]].cells[2] = <<>>

\* the items of the list that have a season element and a class code
Surviving(items) ==
    SelectSeq(items, LAMBDA li : /\ Node[li].hasSeason
                                 /\ class_of(Node[li].cells[2]).t /= "none")

\* the value of field k read from item li alone
ItemValue(li, k) ==
    CASE k \in {"season", "team_name", "team_url"} -> Node[li].named[k]
      [] k = "class" -> class_of(Node[li].cells[2])
      [] k = "since" -> since_of(Node[li].cells[Len(Node[li].cells) - 1])
      [] k = "until" -> until_of(Node[li].cells[Len(Node[li].cells) - 1])

\* C3: teams_history with valid fields returns one row per list item that
\* has a season element and a class code, in document order, and every value
\* of a row is read from that row's own item.
C3_SurvivingItemsInOrder ==
    (last.routine = "teams_history" /\ ValidArgs("teams_history", last.args))
    => /\ last.outcome = "ok"
       /\ Len(last.table) = Len(Surviving(html.teams))
       /\ \A i \in 1..Len(last.table) :
              \A j \in 1..Len(last.table[i]) :
                  last.table[i][j].v =
                      ItemValue(Surviving(html.teams)[i], last.table[i][j].k)

\* a list of several items of which some but not all survive, with a
\* column of the secondary pass requested
C3_Witness ==
    /\ Returned("teams_history")
    /\ "since" \in Range(last.args)
    /\ Len(last.table) >= 1
    /\ Len(last.table) < Len(html.teams)

\* C4: every row teams_history returns has exactly the requested fields as
\* keys, each once; "class" is a key only when it was requested.
C4_TeamsKeySet ==
    Returned("teams_history")
    => \A i \in 1..Len(last.table) :
           /\ KeySet(last.table[i]) = Requested("teams_history", last.args)
           /\ Len(last.table[i]) = Cardinality(KeySet(last.table[i]))

\* rows were returned for fields that skip the primary pass and leave out
\* "class"
C4_Witness ==
    /\ Returned("teams_history")
    /\ last.args /= <<>>
    /\ Range(last.args) \subseteq {"since", "until"}
    /\ Len(last.table) >= 1

\* C5: every row season_results returns has exactly the requested fields as
\* keys; when "date" is requested every row has a "date" key, also when the
\* page has no current-season link.
C5_ResultsKeySet ==
    Returned("season_results")
    => \A i \in 1..Len(last.table) :
           KeySet(last.table[i]) = Requested("season_results", last.args)

\* the whitespace-delimited tokens of a cell text
Tokens(x) == split(strip(x), " ")

IsNumber(x) == float(x).t = "float"

SupersededColumns ==
    [distance |-> 5, pcs_points |-> 6, uci_points |-> 7]

\* C6: in the distance, pcs_points and uci_points columns a cell holding one
\* number, or a superseded number, whitespace and the current number, yields
\* the last number.
C6_CurrentValue ==
    Returned("season_results")
    => \A i \in 1..Len(last.table) :
           \A f \in DOMAIN SupersededColumns :
               LET x == Node[html.results[i]].cells[SupersededColumns[f]]
               IN (/\ HasKey(last.table[i], f)
                   /\ Len(Tokens(x)) \in {1, 2}
                   /\ \A t \in 1..Len(Tokens(x)) : IsNumber(Tokens(x)[t]))
                  => Value(last.table[i], f) = float(Tokens(x)[Len(Tokens(x))])

\* C7: season_results called with valid fields returns normally, whatever
\* rows the results table holds.
C7_ReturnsNormally ==
    (last.routine = "season_results" /\ ValidArgs("season_results", last.args))
    => last.outcome = "ok"

\* C8: a call returns what the same call returns on the tree the Rider was
\* constructed with, whatever calls came before it.
C8_Reproducible ==
    last.routine /= ""
    => LET r == Apply(last.routine, html0, last.args)
       IN /\ last.outcome = r.outcome
          /\ last.table = r.table
          /\ last.value = r.value

\* season_results returned rows from a tree that an earlier call had
\* already changed
C8_Witness ==
    /\ Returned("season_results")
    /\ html /= html0
    /\ last.removed = 0
    /\ Len(last.table) >= 1

\* C9 as claimed: the keys of every row of teams_history and season_results
\* are in the declared order of the routine's available fields.
C9_DeclaredOrder ==
    (last.routine \in {"teams_history", "season_results"} /\ last.outcome = "ok")
    => \A i \in 1..Len(last.table) :
           Keys(last.table[i]) =
               SelectSeq(Available(last.routine),
                         LAMBDA f : f \in KeySet(last.table[i]))

\* the order in which a routine attaches its columns
RowOrder(routine) ==
    IF routine = "teams_history"
    THEN <<"season", "team_name", "team_url", "class", "since", "until">>
    ELSE <<"stage_url", "stage_name", "date", "result", "gc_position",
           "distance", "pcs_points", "uci_points">>

\* C9 amended: the keys of every row are in the routine's own fixed order
\* (the fields of the primary pass, then the attached columns in the order
\* of attachment), and the table is the same when the caller lists the
\* requested fields in the opposite order.
C9_FixedOrder ==
    (last.routine \in {"teams_history", "season_results"} /\ last.outcome = "ok")
    => /\ \A i \in 1..Len(last.table) :
              Keys(last.table[i]) =
                  SelectSeq(RowOrder(last.routine),
                            LAMBDA f : f \in KeySet(last.table[i]))
       /\ Apply(last.routine, html, Reverse(last.args)).table = last.table

\* rows were returned for two fields listed against both orders
C9_Witness ==
    /\ Returned("teams_history")
    /\ last.args = <<"since", "team_name">>
    /\ Len(last.table) >= 1
    /\ Keys(last.table[1]) = <<"team_name", "since">>

IsDigits(x) == x /= <<>> /\ AllDecimal(x)

ExpectedPosition(x) == IF IsDigits(x) THEN PyInt(DecimalValue(x)) ELSE None

ExpectedPoints(x) ==
    IF IsDigits(x) THEN PyFloat(DecimalValue(x), <<>>) ELSE PyInt(0)

MakeOps == {"make_data_fixture", "make_html_fixture"}

FileType(op) == IF op = "make_data_fixture" THEN JSON ELSE TXT

\* the latest operation was a make_..._fixture call
Made == flast.op \in MakeOps

\* the file a make_..._fixture call is to write for the URL of its object
FixtureName == path(url_to_filename(flast.url), FileType(flast.op))

\* without a bound document the call raises ExpectedParsingError before
\* parse is called and before any file is opened, and the directory is as
\* it was
C11_UnboundRaises ==
    (Made /\ ~flast.bound)
    => /\ flast.outcome = "ExpectedParsingError"
       /\ ~flast.parsed
       /\ flast.opened = <<>>
       /\ fixtures = flast.before

\* with a bound document the call writes exactly one file, the one named
\* from url_to_filename(relative_url), and leaves the others as they were
C11_BoundWritesOne ==
    (Made /\ flast.bound)
    => /\ flast.outcome = "ok"
       /\ flast.opened = <<FixtureName>>
       /\ DOMAIN fixtures = DOMAIN flast.before \cup {FixtureName}
       /\ \A n \in DOMAIN flast.before :
              n /= FixtureName => fixtures[n] = flast.before[n]

\* C11: make_data_fixture and make_html_fixture called with a scraper object
\* whose html is None raise ExpectedParsingError before parsing and before
\* opening any file, so that no fixture file is created or overwritten; with
\* a bound scraper they write exactly one file, named from
\* url_to_filename(relative_url).
C11_MakeFixture == C11_UnboundRaises /\ C11_BoundWritesOne

\* both fixtures were made for a scraper object with URL u
Saved(u) == made[u].txt /= None /\ made[u].json /= None

\* every listing of the directory gives back URL u
Recovered(u, file_type) ==
    \A files \in Listings(glob(fixtures, file_type)) :
        u \in Range(get_urls_from_fixtures_dir(files))

\* the scraper objects recovered for the Rider class hold one with URL u
\* that is bound to the HTML saved for u
RecoveredObject(u) ==
    \A html_files \in Listings(glob(fixtures, TXT)) :
        \A json_files \in Listings(glob(fixtures, JSON)) :
            LET objs == get_scraper_objects_from_fixtures(
                            fixtures, "Rider", html_files, json_files)
            IN \E i \in 1..Len(objs) :
                   /\ relative_url(objs[i]) = u
                   /\ objs[i].html = HTMLParser(made[u].txt)

\* C12: fixture store round trip.  For every relative URL u, once
\* make_html_fixture and make_data_fixture were run for a scraper with URL u,
\* the URL recovered from the fixture file name is u
\* (filename_to_url(url_to_filename(u)) = u), the recovered scraper is bound
\* to the HTML saved for u, and get_data_fixture on its URL returns the data
\* saved for u; two different URLs never map to the same fixture file.
C12_RoundTrip ==
    /\ \A u \in FixtureUrls :
           Saved(u)
           => /\ filename_to_url(url_to_filename(u)) = u
              /\ Recovered(u, TXT)
              /\ Recovered(u, JSON)
              /\ RecoveredObject(u)
              /\ get_data_fixture(fixtures, u) = json_load(made[u].json)
    /\ \A u, v \in FixtureUrls :
           (Saved(u) /\ Saved(v) /\ u /= v)
           => url_to_filename(u) /= url_to_filename(v)

====
